---- MODULE Spec2Model ----
(***************************************************************************)
(* Model of BackUp_Cat.py: main() asks for three inputs, creates a folder  *)
(* on the storage service, fetches an image from the content service,      *)
(* resolves an upload link, uploads the bytes and writes a JSON record.    *)
(* Strings are sequences of one-character strings; bytes are sequences of  *)
(* integers; Python's None is the empty option <<>>, a value v is <<v>>.   *)
(***************************************************************************)
EXTENDS Integers, Sequences, FiniteSets, TLC

(* ---------------------------- bounds ----------------------------------- *)
MaxRuns == 2
MaxPayloadLen == 2
MaxTime == 2

(* ------------------------- environment sets ---------------------------- *)
Whitespace == {" ", "\t"}
AlnumChars == {"a", "b", "t", "g"}

RawTexts == { <<>>, <<" ">>, <<" ", "a", " ", "b", "\t">>, <<"a", "!">> }
RawTokens == { <<>>, <<"t">> }
RawGroups == { <<" ">>, <<"g">> }

FolderStatuses == {201, 409, 401}
CatStatuses == {200, 404}
PutStatuses == {201, 202, 507}

Payload(n) == [i \in 1..n |-> 0]
PayloadLens == (0..MaxPayloadLen) \cup {128, 1000, 2048}
Payloads == { Payload(n) : n \in PayloadLens }

None == <<>>
Some(v) == <<v>>
Hrefs == { None, Some(<<>>), Some(<<"u">>) }
Times == 1..MaxTime

(* ------------------------- pure helpers -------------------------------- *)
RECURSIVE lstrip(_)
lstrip(s) == IF s # <<>> /\ Head(s) \in Whitespace THEN lstrip(Tail(s)) ELSE s

RECURSIVE rstrip(_)
rstrip(s) ==
  IF s # <<>> /\ s[Len(s)] \in Whitespace
  THEN rstrip(SubSeq(s, 1, Len(s) - 1))
  ELSE s

strip(s) == rstrip(lstrip(s))

IsSafeChar(c) == c \in AlnumChars \/ c \in {" ", "_", "-"}

RECURSIVE FilterSafe(_)
FilterSafe(s) ==
  IF s = <<>> THEN <<>>
  ELSE IF IsSafeChar(Head(s)) THEN <<Head(s)>> \o FilterSafe(Tail(s))
       ELSE FilterSafe(Tail(s))

ReplaceSpaces(s) == [i \in 1..Len(s) |-> IF s[i] = " " THEN "_" ELSE s[i]]

SafeFilename(text) ==
  ReplaceSpaces(rstrip(FilterSafe(text))) \o <<".", "j", "p", "g">>

DiskFilePath(group, fname) == group \o <<"/">> \o fname

(* file_size_kb is the float len/1024; it is held exactly as a fixed-point *)
(* integer counting units of 1/KbUnits kilobytes (KbUnits = lcm(1024,100)) *)
KbUnits == 1024 * 25
SizeKb(n) == n * (KbUnits \div 1024)

\* a / b rounded to the nearest integer, ties to even (Python's round)
RoundDiv(a, b) ==
  LET q == a \div b
      r == a % b
  IN IF 2 * r < b THEN q
     ELSE IF 2 * r > b THEN q + 1
     ELSE IF q % 2 = 0 THEN q ELSE q + 1

\* n / 1024 rounded to 2 decimals, in the same fixed-point unit
Round2Kb(n) == RoundDiv(n * 100, 1024) * (KbUnits \div 100)

(* --------------------------- state ------------------------------------- *)
VARIABLES
  pc,             \* position of main(): input, create_folder, get_cat_image,
                  \* get_upload_link, upload_put, returned, raised
  run,            \* number of the current process invocation
  text,           \* stripped display text
  token,          \* stripped credential token
  group_name,     \* stripped folder name
  folder_status,  \* option: folder_response.status_code
  cat_status,     \* option: status code answered by the content service
  image_content,  \* option: bytes returned by get_cat_image, None if none
  upload_url,     \* option: href returned by get_upload_link
  put_status,     \* option: status code answered to the upload PUT
  upload_success, \* option: boolean returned by upload_file
  log,            \* remote calls and file writes of the current run, in order
  files           \* working directory: set of [name, data]

vars == << pc, run, text, token, group_name, folder_status, cat_status,
           image_content, upload_url, put_status, upload_success, log, files >>

InfoFile == "upload_info.json"
ErrorFile == "upload_error.json"

\* entries of log: a remote call that was issued, a file that was written
Call(name) == [op |-> "call", target |-> name]
Save(filename) == [op |-> "save", target |-> filename]

(* --------------------------- code helpers ------------------------------ *)
InputsFilled_NoGroup(t, k, g) == t # <<>> /\ k # <<>>

\* line 75: if not text or not token or not group_name
InputsFilled(t, k, g) == t # <<>> /\ k # <<>> /\ g # <<>>

FolderOk_Always(status) == TRUE

FolderOk_Only201(status) == status = 201

\* line 86: status_code in [201, 409]
FolderOk(status) == status \in {201, 409}

get_cat_image_AnyStatus(status, content) == Some(content)

\* lines 52-55: content on 200, None otherwise
get_cat_image(status, content) == IF status = 200 THEN Some(content) ELSE None

ImageTruthy_NotNone(img) == img # None

\* line 97: truthiness of image_content (None and b"" are falsy)
ImageTruthy(img) == img # None /\ Len(img[1]) > 0

UrlTruthy_Unchecked(url) == TRUE

\* line 35: truthiness of upload_url (None and "" are falsy)
UrlTruthy(url) == url # None /\ Len(url[1]) > 0

PutOk_Any2xx(status) == status >= 200 /\ status < 300

\* line 37: response.status_code == 201
PutOk(status) == status = 201

file_info_Rounded(t, g, content, now) ==
  [ file_name       |-> SafeFilename(t),
    original_text   |-> t,
    folder_name     |-> g,
    disk_path       |-> DiskFilePath(g, SafeFilename(t)),
    file_size_bytes |-> Len(content),
    file_size_kb    |-> Round2Kb(Len(content)),
    upload_date     |-> now,
    source          |-> "cataas.com",
    upload_status   |-> "success" ]

\* lines 117-127
file_info(t, g, content, now) ==
  [ file_name       |-> SafeFilename(t),
    original_text   |-> t,
    folder_name     |-> g,
    disk_path       |-> DiskFilePath(g, SafeFilename(t)),
    file_size_bytes |-> Len(content),
    file_size_kb    |-> SizeKb(Len(content)),
    upload_date     |-> now,
    source          |-> "cataas.com",
    upload_status   |-> "success" ]

\* lines 143-151
error_info(t, g, now) ==
  [ file_name     |-> SafeFilename(t),
    original_text |-> t,
    folder_name   |-> g,
    disk_path     |-> DiskFilePath(g, SafeFilename(t)),
    upload_date   |-> now,
    upload_status |-> "failed",
    error         |-> "Failed to upload to Yandex.Disk" ]

\* lines 58-61: open(filename, 'w') replaces the file of that name
save_json_data(dir, data, filename) ==
  { f \in dir : f.name # filename } \cup { [name |-> filename, data |-> data] }

\* lines 113-152: the branch of main() after upload_file has returned
Record(success, now) ==
  IF success
  THEN /\ files' = save_json_data(files,
                     file_info(text, group_name, image_content[1], now), InfoFile)
  ELSE /\ files' = save_json_data(files,
                     error_info(text, group_name, now), ErrorFile)

RecordEvent(success) == IF success THEN Save(InfoFile) ELSE Save(ErrorFile)

(* --------------------------- behaviour --------------------------------- *)
Init ==
  /\ pc = "input"
  /\ run = 1
  /\ text = <<>>
  /\ token = <<>>
  /\ group_name = <<>>
  /\ folder_status = None
  /\ cat_status = None
  /\ image_content = None
  /\ upload_url = None
  /\ put_status = None
  /\ upload_success = None
  /\ log = <<>>
  /\ files = {}

\* lines 69-77
ReadInputs(rt, rk, rg) ==
  /\ pc = "input"
  /\ text' = strip(rt)
  /\ token' = strip(rk)
  /\ group_name' = strip(rg)
  /\ pc' = IF InputsFilled(text', token', group_name')
           THEN "create_folder" ELSE "returned"
  /\ UNCHANGED << run, folder_status, cat_status, image_content, upload_url,
                  put_status, upload_success, log, files >>

\* lines 84-91, the storage service answers with a status; on a failure
\* status line 88 parses the body, which may raise
CreateFolder(status, jsonOk) ==
  /\ pc = "create_folder"
  /\ log' = Append(log, Call("create_folder"))
  /\ folder_status' = Some(status)
  /\ pc' = IF FolderOk(status) THEN "get_cat_image"
           ELSE IF jsonOk THEN "returned" ELSE "raised"
  /\ UNCHANGED << run, text, token, group_name, cat_status, image_content,
                  upload_url, put_status, upload_success, files >>

\* line 19: requests.put raises (no connection, timeout, ...)
CreateFolderRaises ==
  /\ pc = "create_folder"
  /\ log' = Append(log, Call("create_folder"))
  /\ pc' = "raised"
  /\ UNCHANGED << run, text, token, group_name, folder_status, cat_status,
                  image_content, upload_url, put_status, upload_success, files >>

\* lines 95-99
GetCatImage(status, content) ==
  /\ pc = "get_cat_image"
  /\ log' = Append(log, Call("get_cat_image"))
  /\ cat_status' = Some(status)
  /\ image_content' = get_cat_image(status, content)
  /\ pc' = IF ImageTruthy(image_content') THEN "get_upload_link" ELSE "returned"
  /\ UNCHANGED << run, text, token, group_name, folder_status, upload_url,
                  put_status, upload_success, files >>

\* line 52: requests.get raises
GetCatImageRaises ==
  /\ pc = "get_cat_image"
  /\ log' = Append(log, Call("get_cat_image"))
  /\ pc' = "raised"
  /\ UNCHANGED << run, text, token, group_name, folder_status, cat_status,
                  image_content, upload_url, put_status, upload_success, files >>

\* lines 111, 34-35 and, when the link is falsy, 38 and 139-152
GetUploadLink(href, now) ==
  /\ pc = "get_upload_link"
  /\ upload_url' = href
  /\ IF UrlTruthy(href)
     THEN /\ pc' = "upload_put"
          /\ log' = Append(log, Call("get_upload_link"))
          /\ UNCHANGED << upload_success, files >>
     ELSE /\ upload_success' = Some(FALSE)
          /\ Record(FALSE, now)
          /\ log' = log \o << Call("get_upload_link"), RecordEvent(FALSE) >>
          /\ pc' = "returned"
  /\ UNCHANGED << run, text, token, group_name, folder_status, cat_status,
                  image_content, put_status >>

\* lines 29-30: requests.get raises, or the body is not a JSON object
GetUploadLinkRaises ==
  /\ pc = "get_upload_link"
  /\ log' = Append(log, Call("get_upload_link"))
  /\ pc' = "raised"
  /\ UNCHANGED << run, text, token, group_name, folder_status, cat_status,
                  image_content, upload_url, put_status, upload_success, files >>

\* lines 36-37 and 113-152
UploadPut(status, now) ==
  /\ pc = "upload_put"
  /\ put_status' = Some(status)
  /\ upload_success' = Some(PutOk(status))
  /\ Record(PutOk(status), now)
  /\ log' = log \o << Call("upload_put"), RecordEvent(PutOk(status)) >>
  /\ pc' = "returned"
  /\ UNCHANGED << run, text, token, group_name, folder_status, cat_status,
                  image_content, upload_url >>

\* line 36: requests.put raises
UploadPutRaises ==
  /\ pc = "upload_put"
  /\ log' = Append(log, Call("upload_put"))
  /\ pc' = "raised"
  /\ UNCHANGED << run, text, token, group_name, folder_status, cat_status,
                  image_content, upload_url, put_status, upload_success, files >>

\* lines 155-156: the script is started again; only the directory persists
StartRun ==
  /\ pc \in {"returned", "raised"}
  /\ run < MaxRuns
  /\ run' = run + 1
  /\ pc' = "input"
  /\ text' = <<>>
  /\ token' = <<>>
  /\ group_name' = <<>>
  /\ folder_status' = None
  /\ cat_status' = None
  /\ image_content' = None
  /\ upload_url' = None
  /\ put_status' = None
  /\ upload_success' = None
  /\ log' = <<>>
  /\ UNCHANGED files

Next ==
  \/ \E rt \in RawTexts, rk \in RawTokens, rg \in RawGroups : ReadInputs(rt, rk, rg)
  \/ \E status \in FolderStatuses, jsonOk \in BOOLEAN : CreateFolder(status, jsonOk)
  \/ CreateFolderRaises
  \/ \E status \in CatStatuses, content \in Payloads : GetCatImage(status, content)
  \/ GetCatImageRaises
  \/ \E href \in Hrefs, now \in Times : GetUploadLink(href, now)
  \/ GetUploadLinkRaises
  \/ \E status \in PutStatuses, now \in Times : UploadPut(status, now)
  \/ UploadPutRaises
  \/ StartRun

Spec == Init /\ [][Next]_vars

TypeOK ==
  /\ pc \in {"input", "create_folder", "get_cat_image", "get_upload_link",
             "upload_put", "returned", "raised"}
  /\ run \in 1..MaxRuns
  /\ Len(log) <= 5


(* ------------------------ vocabulary of the claims --------------------- *)
Terminal == {"returned", "raised"}
CallOrder == << "create_folder", "get_cat_image", "get_upload_link", "upload_put" >>
StorageCalls == {"create_folder", "get_upload_link", "upload_put"}

IsCall(e) == e.op = "call"
IsSave(e) == e.op = "save"
Calls == SelectSeq(log, IsCall)
Saves == SelectSeq(log, IsSave)
Issued(name) == \E i \in 1..Len(log) : log[i] = Call(name)
Wrote(filename) == \E i \in 1..Len(log) : log[i] = Save(filename)
Exists(filename) == \E f \in files : f.name = filename
Data(filename) == (CHOOSE f \in files : f.name = filename).data
JustWrote(filename) == log # <<>> /\ log[Len(log)] = Save(filename)

\* outcome of the i-th remote step, read off the responses
StepFailed(i) ==
  CASE i = 1 -> folder_status \notin {Some(201), Some(409)}
    [] i = 2 -> ~(cat_status = Some(200) /\ image_content # None
                  /\ image_content[1] # <<>>)
    [] i = 3 -> upload_url \in {None, Some(<<>>)}
    [] i = 4 -> put_status # Some(201)

FolderThenFetch == << Call("create_folder"), Call("get_cat_image") >>

(* C1: the remote calls of a run are a prefix of create folder, fetch      *)
(* image, resolve upload link, upload bytes, each issued at most once; a   *)
(* step that failed is the last call of the run and ends it; a result      *)
(* record is written at most once and only after the last issued call.     *)
C1_SequentialNoRetry ==
  /\ Len(Calls) <= Len(CallOrder)
  /\ \A i \in 1..Len(Calls) : Calls[i] = Call(CallOrder[i])
  /\ \A i \in 1..Len(Calls) :
       StepFailed(i) => (Len(Calls) = i /\ pc \in Terminal)
  /\ Len(Saves) <= 1
  /\ \A i \in 1..Len(log) :
       IsSave(log[i]) => (i = Len(log) /\ Len(Calls) >= 3 /\ pc = "returned")

C1_Witness ==
  /\ pc = "returned"
  /\ Len(Calls) = 4
  /\ put_status = Some(507)
  /\ JustWrote(ErrorFile)

(* C2 as stated: when the content service answers a non-200 status the run *)
(* has made no call to the storage service at all.                         *)
C2_AsClaimed_NoStorageCall ==
  (cat_status # None /\ cat_status # Some(200)) =>
     \A i \in 1..Len(log) : ~(IsCall(log[i]) /\ log[i].target \in StorageCalls)

(* C2 amended: when the content service answers a non-200 status the run   *)
(* returns right after the fetch; the only storage call it has made is the *)
(* folder creation issued before the fetch, and no upload link is          *)
(* requested, no upload PUT is sent and no record is written.              *)
C2_NoUploadAfterFailedFetch ==
  (cat_status # None /\ cat_status # Some(200)) =>
     /\ pc = "returned"
     /\ log = FolderThenFetch
     /\ image_content = None

C2_Witness ==
  /\ cat_status = Some(404)
  /\ pc = "returned"
  /\ Issued("create_folder")

(* C3: when one of the three stripped inputs is empty the run returns      *)
(* without issuing a remote call and without writing a result file.        *)
C3_EmptyInputNoSideEffects ==
  (pc # "input" /\ (text = <<>> \/ token = <<>> \/ group_name = <<>>)) =>
     /\ pc = "returned"
     /\ log = <<>>
     /\ folder_status = None /\ cat_status = None /\ put_status = None

C3_Witness ==
  /\ pc = "returned"
  /\ text # <<>> /\ token # <<>> /\ group_name = <<>>
  /\ log = <<>>

(* C4: folder creation counts as success exactly on 201 and 409: then the  *)
(* run goes on to the image fetch; on any other status the run ends with   *)
(* the folder call as its only effect.                                     *)
C4_FolderSuccessIff201Or409 ==
  \A s \in FolderStatuses :
    folder_status = Some(s) =>
      IF s \in {201, 409}
      THEN pc = "get_cat_image" \/ Issued("get_cat_image")
      ELSE pc \in Terminal /\ log = << Call("create_folder") >>

C4_Witness ==
  /\ run = 2
  /\ folder_status = Some(409)
  /\ Issued("get_cat_image")

(* C5: when get_upload_link returns None no upload PUT is issued,          *)
(* upload_file returns False and the run writes a record with status       *)
(* "failed" to upload_error.json.                                          *)
C5_NoPutWithoutHref ==
  (Issued("get_upload_link") /\ upload_url = None /\ pc # "raised") =>
     /\ ~Issued("upload_put")
     /\ put_status = None
     /\ upload_success = Some(FALSE)
     /\ pc = "returned"
     /\ JustWrote(ErrorFile)
     /\ Exists(ErrorFile) /\ Data(ErrorFile).upload_status = "failed"

C5_Witness ==
  /\ Issued("get_upload_link")
  /\ upload_url = None
  /\ pc = "returned"
  /\ JustWrote(ErrorFile)

(* C6 as stated: once the upload step has been entered the run ends with a *)
(* record: a "success" record exactly when the PUT answered 201, and a     *)
(* "failed" record for every other outcome, a network error included.      *)
C6_AsClaimed_FailureAlwaysRecorded ==
  (pc \in Terminal /\ Issued("get_upload_link")) =>
     IF put_status = Some(201)
     THEN /\ upload_success = Some(TRUE)
          /\ JustWrote(InfoFile)
     ELSE /\ upload_success = Some(FALSE)
          /\ JustWrote(ErrorFile)
          /\ Data(ErrorFile).upload_status = "failed"

(* C7: every record on disk with status "success" has both size fields and *)
(* no error field, every record with status "failed" has a non-empty error *)
(* and no size field; a run writes a success record only when its upload   *)
(* PUT answered 201.                                                       *)
C7_RecordShape ==
  /\ \A f \in files :
       /\ f.data.upload_status \in {"success", "failed"}
       /\ f.data.upload_status = "success" =>
            /\ {"file_size_bytes", "file_size_kb"} \subseteq DOMAIN f.data
            /\ "error" \notin DOMAIN f.data
       /\ f.data.upload_status = "failed" =>
            /\ "error" \in DOMAIN f.data
            /\ f.data.error # ""
            /\ {"file_size_bytes", "file_size_kb"} \cap DOMAIN f.data = {}
  /\ \A i \in 1..Len(log) :
       (IsSave(log[i]) /\ Data(log[i].target).upload_status = "success")
          => put_status = Some(201)

C7_Witness ==
  /\ Exists(InfoFile) /\ Data(InfoFile).upload_status = "success"
  /\ Exists(ErrorFile) /\ Data(ErrorFile).upload_status = "failed"
  /\ JustWrote(ErrorFile)

(* C8 as stated: in a success record file_size_bytes is the payload length *)
(* and file_size_kb is that length / 1024 rounded to 2 decimals.           *)
C8_AsClaimed_RoundedKb ==
  JustWrote(InfoFile) =>
     /\ Data(InfoFile).file_size_bytes = Len(image_content[1])
     /\ Data(InfoFile).file_size_kb = Round2Kb(Len(image_content[1]))

(* C8 amended: in a success record file_size_bytes is the payload length   *)
(* and file_size_kb is exactly that length / 1024, not rounded (2048 bytes *)
(* give 2.0, 1000 bytes give 0.9765625).                                   *)
C8_ExactKb ==
  JustWrote(InfoFile) =>
     /\ Data(InfoFile).file_size_bytes = Len(image_content[1])
     /\ Data(InfoFile).file_size_kb * 1024
          = Data(InfoFile).file_size_bytes * KbUnits
     /\ (Len(image_content[1]) = 2048 => Data(InfoFile).file_size_kb = 2 * KbUnits)

C8_Witness ==
  /\ JustWrote(InfoFile)
  /\ Len(image_content[1]) = 1000
  /\ Data(InfoFile).file_size_kb # Round2Kb(1000)

(* C9 as stated: a run writes at most one result file, upload_info.json    *)
(* exactly when its upload succeeded and upload_error.json exactly when    *)
(* its upload step failed, and it leaves the other file unchanged.         *)
UploadSucceeded == put_status = Some(201)
UploadStepFailed == Issued("get_upload_link") /\ ~UploadSucceeded
Others(filename) == { f \in files : f.name # filename }

C9_AsClaimed_OneFilePerOutcome ==
  /\ [](/\ Len(Saves) <= 1
        /\ pc \in Terminal =>
             /\ Wrote(InfoFile) <=> UploadSucceeded
             /\ Wrote(ErrorFile) <=> UploadStepFailed)
  /\ [][ files' # files =>
           \/ UploadSucceeded' /\ Others(InfoFile)' = Others(InfoFile)
           \/ UploadStepFailed' /\ Others(ErrorFile)' = Others(ErrorFile) ]_vars

(* C10: a 200 answer with an empty body is handled like a non-200 answer:  *)
(* the run returns after the fetch with no upload-link request, no upload  *)
(* PUT and no result file written.                                         *)
C10_EmptyBodyAborts ==
  (cat_status = Some(200) /\ image_content = Some(<<>>)) =>
     /\ pc = "returned"
     /\ log = FolderThenFetch
     /\ upload_success = None

C10_Witness ==
  /\ cat_status = Some(200)
  /\ image_content = Some(<<>>)
  /\ pc = "returned"

====
